---- MODULE Spec2Model ----
(***************************************************************************)
(* Model of debate_anlyz.py: the CMU dictionary loader, the syllable       *)
(* counter, the Flesch parameters and scores, the word frequency engine    *)
(* and the delta engine.                                                   *)
(*                                                                         *)
(* A Python str is a sequence of one-character strings.  A Python dict is  *)
(* a function (SYLLABLES) or, where its iteration order is observable, a   *)
(* sequence of <<key, value>> pairs in insertion order.                    *)
(***************************************************************************)
EXTENDS Integers, Sequences, FiniteSets, TLC

VARIABLES pc, SYLLABLES, line, nread, op, result

vars == <<pc, SYLLABLES, line, nread, op, result>>

-----------------------------------------------------------------------------
(* Bounds of the explored inputs. *)

MaxLines == 2
MaxLineLen == 4
MaxWordLen == 2
MaxTextLen == 4
MaxFreqLen == 5
MaxDeltaLen == 3
MaxLong == 26
Vocabulary == 22

-----------------------------------------------------------------------------
(* Characters *)

LowerSeq == <<"a","b","c","d","e","f","g","h","i","j","k","l","m",
              "n","o","p","q","r","s","t","u","v","w","x","y","z">>

UpperSeq == <<"A","B","C","D","E","F","G","H","I","J","K","L","M",
              "N","O","P","Q","R","S","T","U","V","W","X","Y","Z">>

DigitChars == {"0","1","2","3","4","5","6","7","8","9"}

Range(s) == {s[i] : i \in 1..Len(s)}

\* str.isdigit() on one character
isdigit(c) == c \in DigitChars

\* the class \s of the re module
WhiteSpace == {" ", "\t", "\n", "\r", "\f"}

\* the class [a-zA-Z0-9_'] that REGEX_WORDS negates
WordChars == Range(LowerSeq) \cup Range(UpperSeq) \cup DigitChars \cup {"_", "'"}

\* the class [\.?:!] of the sentence split
SentenceDelims == {".", "?", ":", "!"}

\* the class [aeiou] of the fallback heuristic
Vowels == {"a", "e", "i", "o", "u"}

upperChar(c) ==
    IF \E i \in 1..26 : LowerSeq[i] = c
    THEN UpperSeq[CHOOSE i \in 1..26 : LowerSeq[i] = c]
    ELSE c

\* str.upper()
upper(s) == [i \in 1..Len(s) |-> upperChar(s[i])]

-----------------------------------------------------------------------------
(* re.split and re.findall for a pattern of the form [class]+ *)

\* index of the first character of s at or after i that is in seps, 0 if none
RECURSIVE FirstIn(_, _, _)
FirstIn(s, seps, i) ==
    IF i > Len(s) THEN 0
    ELSE IF s[i] \in seps THEN i
    ELSE FirstIn(s, seps, i + 1)

\* index of the last character of the run of seps that starts at i
RECURSIVE RunEnd(_, _, _)
RunEnd(s, seps, i) ==
    IF i < Len(s) /\ s[i + 1] \in seps THEN RunEnd(s, seps, i + 1) ELSE i

\* left = number of splits still allowed, -1 for no limit
RECURSIVE SplitFrom(_, _, _)
SplitFrom(s, seps, left) ==
    LET i == FirstIn(s, seps, 1) IN
    IF left = 0 \/ i = 0 THEN <<s>>
    ELSE LET j == RunEnd(s, seps, i) IN
         <<SubSeq(s, 1, i - 1)>> \o
         SplitFrom(SubSeq(s, j + 1, Len(s)), seps, IF left = -1 THEN -1 ELSE left - 1)

\* re.split(r"[seps]+", s, maxsplit); maxsplit = 0 means no limit
re_split(seps, s, maxsplit) ==
    SplitFrom(s, seps, IF maxsplit = 0 THEN -1 ELSE maxsplit)

\* len(re.findall(r"[cls]+", s)): the number of maximal runs of cls in s
count_findall(cls, s) ==
    Cardinality({i \in 1..Len(s) : s[i] \in cls /\ (i = 1 \/ s[i - 1] \notin cls)})

\* REGEX_WORDS.split(s)
REGEX_WORDS_split(s) == re_split(Range(s) \ WordChars, s, 0)

\* [x for x in seq if x != ""]
RECURSIVE NonEmpty(_)
NonEmpty(seq) ==
    IF seq = <<>> THEN <<>>
    ELSE IF Head(seq) = <<>> THEN NonEmpty(Tail(seq))
    ELSE <<Head(seq)>> \o NonEmpty(Tail(seq))

RECURSIVE SumSeq(_)
SumSeq(seq) == IF seq = <<>> THEN 0 ELSE Head(seq) + SumSeq(Tail(seq))

\* all sequences over S of length at most n
StringsUpTo(S, n) == UNION {[1..k -> S] : k \in 0..n}

-----------------------------------------------------------------------------
(* init_cmu_dict *)

EmptyDict == [k \in {} |-> 0]

\* d[k] = v
DictPut(d, k, v) == [x \in DOMAIN d \cup {k} |-> IF x = k THEN v ELSE d[x]]

\* the list comprehension of init_cmu_dict: phonemes that end in a digit
num_syllables_of(rest) ==
    LET phonemes == re_split(WhiteSpace, rest, 0) IN
    Cardinality({i \in 1..Len(phonemes) :
                    phonemes[i] # <<>> /\ isdigit(phonemes[i][Len(phonemes[i])])})

\* one iteration of the loop over the lines of the dictionary file
load_line(d, l) ==
    LET split == re_split(WhiteSpace, l, 1) IN
    IF Len(split) # 2 THEN d
    ELSE DictPut(d, split[1], num_syllables_of(split[2]))

-----------------------------------------------------------------------------
(* count_syllables *)

count_syllables(d, word) ==
    IF upper(word) \in DOMAIN d THEN d[upper(word)]
    ELSE count_findall(Vowels, word)

-----------------------------------------------------------------------------
(* flesch_params, flesch_reading_ease, flesch_kincaid_grade_level          *)

\* mutant: the empty segments of the split are not counted
split_sentences_nonempty(input) == NonEmpty(re_split(SentenceDelims, input, 0))

\* re.split(r"[\.?:!]+", input)
split_sentences(input) == re_split(SentenceDelims, input, 0)

\* mutant: the empty tokens are not filtered out of the word list
flesch_words_unfiltered(input) == REGEX_WORDS_split(input)

\* [word for word in REGEX_WORDS.split(input) if word != ""]
flesch_words(input) == NonEmpty(REGEX_WORDS_split(input))

\* sum([count_syllables(word) for word in words])
sum_syllables(d, words) ==
    SumSeq([i \in 1..Len(words) |-> count_syllables(d, words[i])])

\* (num_sentences, num_words, num_syllables); the counts are small integers,
\* which float() represents exactly
flesch_params(d, input) ==
    <<Len(split_sentences(input)),
      Len(flesch_words(input)),
      sum_syllables(d, flesch_words(input))>>

ZeroDivisionError == [kind |-> "ZeroDivisionError"]

\* 206.835 - 1.015 * (w / s) - 84.6 * (syl / w), kept as the exact fraction
\* num / den in thousandths; a float division by 0.0 raises
flesch_reading_ease(d, input) ==
    LET p == flesch_params(d, input)
        s == p[1]  w == p[2]  syl == p[3] IN
    IF s = 0 \/ w = 0 THEN ZeroDivisionError
    ELSE [kind |-> "float",
          num |-> 206835 * s * w - 1015 * w * w - 84600 * syl * s,
          den |-> s * w]

\* 0.39 * (w / s) + 11.8 * (syl / w) - 15.59, in hundredths
flesch_kincaid_grade_level(d, input) ==
    LET p == flesch_params(d, input)
        s == p[1]  w == p[2]  syl == p[3] IN
    IF s = 0 \/ w = 0 THEN ZeroDivisionError
    ELSE [kind |-> "float",
          num |-> 39 * w * w + 1180 * syl * s - 1559 * s * w,
          den |-> s * w]

-----------------------------------------------------------------------------
(* get_words_with_count, get_most_used_words *)

BORING_WORDS == {
    <<"S","O">>, <<"I">>, <<"I","'","M">>, <<"I","S">>, <<"A","N","D">>,
    <<"N","O","T">>, <<"T","H","E">>, <<"Y","O","U">>, <<"T","O","O">>,
    <<"T","H","I","S">>, <<"A">>, <<"T","O">>, <<"W","A","S">>,
    <<"T","H","A","T">>, <<"I","T">>, <<"H","A","V","E">>, <<"M","E">>,
    <<"W","I","T","H">>, <<"F","O","R">>, <<"O","F">>, <<"B","U","T">>,
    <<"S">>, <<"M","Y">>, <<"J","U","S","T">>, <<"D","O">>, <<"I","N">>,
    <<"O","N">>, <<"L","L">>, <<"A","S">>, <<"A","R","E">>, <<"T">>,
    <<"R","E">>, <<"A","T">>, <<"T","H","E","N">>, <<"B","E">>, <<"B","Y">>,
    <<"W","O","U","L","D">>, <<"H","A","D">>, <<"H","A","S">>, <<"A","N">>
}

PRONOUNS == {
    <<"Y","O","U">>, <<"Y","O","U","R">>, <<"Y","O","U","R","S">>,
    <<"H","E">>, <<"H","I","M">>, <<"H","I","S">>, <<"S","H","E">>,
    <<"H","E","R">>, <<"H","E","R","S">>, <<"I","T">>, <<"I","T","S">>,
    <<"I","T","'","S">>, <<"W","E">>, <<"O","U","R">>, <<"O","U","R","S">>,
    <<"T","H","E","Y">>, <<"T","H","E","M">>, <<"T","H","E","I","R","S">>,
    <<"T","H","A","T","'","S">>
}

\* the slice [0:20]
TopN == 20

\* mutant: the pronoun list is consulted only when the boring-word filter
\* is not requested
excluded_exclusive(word, exclude_boring, exclude_pronouns) ==
    IF exclude_boring THEN word \in BORING_WORDS
    ELSE exclude_pronouns /\ word \in PRONOUNS

\* the if / elif conditions that skip a word
excluded(word, exclude_boring, exclude_pronouns) ==
    IF exclude_boring /\ word \in BORING_WORDS THEN TRUE
    ELSE IF exclude_pronouns /\ word \in PRONOUNS THEN TRUE
    ELSE FALSE

\* words[word] = words[word] + 1, or words[word] = 1 for a new key, which
\* goes last in the dict's order
count_word(words, word) ==
    IF \E i \in 1..Len(words) : words[i][1] = word
    THEN LET i == CHOOSE i \in 1..Len(words) : words[i][1] = word IN
         [words EXCEPT ![i] = <<word, words[i][2] + 1>>]
    ELSE Append(words, <<word, 1>>)

\* the loop over split
RECURSIVE count_words(_, _, _, _)
count_words(split, exclude_boring, exclude_pronouns, words) ==
    IF split = <<>> THEN words
    ELSE count_words(Tail(split), exclude_boring, exclude_pronouns,
            IF excluded(Head(split), exclude_boring, exclude_pronouns)
            THEN words
            ELSE count_word(words, Head(split)))

\* mutant: x goes before the items with an equal key, which reverses ties
RECURSIVE insert_desc_ties_first(_, _)
insert_desc_ties_first(items, x) ==
    IF items = <<>> THEN <<x>>
    ELSE IF Head(items)[2] <= x[2] THEN <<x>> \o items
    ELSE <<Head(items)>> \o insert_desc_ties_first(Tail(items), x)

\* where a stable descending sort puts x among the already sorted items:
\* before the first item with a smaller key
RECURSIVE insert_desc(_, _)
insert_desc(items, x) ==
    IF items = <<>> THEN <<x>>
    ELSE IF Head(items)[2] < x[2] THEN <<x>> \o items
    ELSE <<Head(items)>> \o insert_desc(Tail(items), x)

RECURSIVE sort_onto(_, _)
sort_onto(done, items) ==
    IF items = <<>> THEN done
    ELSE sort_onto(insert_desc(done, Head(items)), Tail(items))

\* sorted(items, key=lambda x: x[1], reverse=True)
sorted_desc(items) == sort_onto(<<>>, items)

\* the dict words after the loop, as its items in insertion order
words_dict(input, exclude_boring, exclude_pronouns) ==
    count_words(REGEX_WORDS_split(upper(input)), exclude_boring,
                exclude_pronouns, <<>>)

get_words_with_count(input, exclude_boring, exclude_pronouns, as_sorted) ==
    LET words == words_dict(input, exclude_boring, exclude_pronouns) IN
    IF as_sorted THEN sorted_desc(words) ELSE words

\* seq[0:n]
Slice(seq, n) == SubSeq(seq, 1, IF Len(seq) < n THEN Len(seq) ELSE n)

get_most_used_words(input, exclude_pronouns) ==
    Slice(get_words_with_count(input, TRUE, exclude_pronouns, TRUE), TopN)

-----------------------------------------------------------------------------
(* get_total_word_count, get_total_syllable_count *)

\* mutant: the empty tokens are filtered out before counting
get_total_word_count_filtered(input) == Len(NonEmpty(REGEX_WORDS_split(input)))

get_total_word_count(input) == Len(REGEX_WORDS_split(input))

get_total_syllable_count(d, input) == sum_syllables(d, REGEX_WORDS_split(input))

-----------------------------------------------------------------------------
(* get_words_with_deltas *)

\* words_b[word] if word in words_b else 0
count_or_zero(words_b, word) ==
    IF \E i \in 1..Len(words_b) : words_b[i][1] = word
    THEN words_b[CHOOSE i \in 1..Len(words_b) : words_b[i][1] = word][2]
    ELSE 0

\* the list comprehension over words_a
deltas_of(words_a, words_b) ==
    [i \in 1..Len(words_a) |->
        <<words_a[i][1], words_a[i][2] - count_or_zero(words_b, words_a[i][1])>>]

\* mutant: the deltas are not sorted again, they stay in the order of words_a
get_words_with_deltas_unsorted(input_a, input_b) ==
    LET words_a == get_words_with_count(input_a, FALSE, FALSE, TRUE)
        words_b == get_words_with_count(input_b, FALSE, FALSE, FALSE) IN
    Slice(deltas_of(words_a, words_b), TopN)

get_words_with_deltas(input_a, input_b) ==
    LET words_a == get_words_with_count(input_a, FALSE, FALSE, TRUE)
        words_b == get_words_with_count(input_b, FALSE, FALSE, FALSE) IN
    Slice(sorted_desc(deltas_of(words_a, words_b)), TopN)

-----------------------------------------------------------------------------
(* The state machine.  init_cmu_dict reads the file line by line; after    *)
(* it the script calls the analysis functions, none of which writes        *)
(* SYLLABLES.  op holds the call in progress and result what it returned.  *)

NoOp == [name |-> "none"]
NoResult == [kind |-> "none"]

LoadLine(l) ==
    /\ pc = "load"
    /\ nread < MaxLines
    /\ line' = l
    /\ nread' = nread + 1
    /\ SYLLABLES' = load_line(SYLLABLES, l)
    /\ UNCHANGED <<pc, op, result>>

EndLoad ==
    /\ pc = "load"
    /\ pc' = "ready"
    /\ line' = <<>>
    /\ UNCHANGED <<SYLLABLES, nread, op, result>>

Call(o, r) ==
    /\ pc = "ready"
    /\ pc' = "called"
    /\ op' = o
    /\ result' = r
    /\ UNCHANGED <<SYLLABLES, line, nread>>

Return ==
    /\ pc = "called"
    /\ pc' = "ready"
    /\ op' = NoOp
    /\ result' = NoResult
    /\ UNCHANGED <<SYLLABLES, line, nread>>

CountSyllables(w) ==
    Call([name |-> "count_syllables", word |-> w],
         [kind |-> "int", val |-> count_syllables(SYLLABLES, w)])

FleschParams(t) ==
    Call([name |-> "flesch_params", input |-> t],
         [kind |-> "tuple", val |-> flesch_params(SYLLABLES, t)])

FleschReadingEase(t) ==
    Call([name |-> "flesch_reading_ease", input |-> t],
         flesch_reading_ease(SYLLABLES, t))

FleschKincaidGradeLevel(t) ==
    Call([name |-> "flesch_kincaid_grade_level", input |-> t],
         flesch_kincaid_grade_level(SYLLABLES, t))

GetTotalWordCount(t) ==
    Call([name |-> "get_total_word_count", input |-> t],
         [kind |-> "int", val |-> get_total_word_count(t)])

GetTotalSyllableCount(t) ==
    Call([name |-> "get_total_syllable_count", input |-> t],
         [kind |-> "int", val |-> get_total_syllable_count(SYLLABLES, t)])

GetWordsWithCount(t, eb, ep, srt) ==
    Call([name |-> "get_words_with_count", input |-> t, exclude_boring |-> eb,
          exclude_pronouns |-> ep, as_sorted |-> srt],
         [kind |-> "items", val |-> get_words_with_count(t, eb, ep, srt)])

GetMostUsedWords(t, ep) ==
    Call([name |-> "get_most_used_words", input |-> t, exclude_pronouns |-> ep],
         [kind |-> "items", val |-> get_most_used_words(t, ep)])

GetWordsWithDeltas(a, b) ==
    Call([name |-> "get_words_with_deltas", input_a |-> a, input_b |-> b],
         [kind |-> "items", val |-> get_words_with_deltas(a, b)])

InitLoad ==
    /\ pc = "load"
    /\ SYLLABLES = EmptyDict
    /\ line = <<>>
    /\ nread = 0
    /\ op = NoOp
    /\ result = NoResult

\* the functions of the word statistics do not read SYLLABLES
InitReady ==
    /\ pc = "ready"
    /\ SYLLABLES = EmptyDict
    /\ line = <<>>
    /\ nread = 0
    /\ op = NoOp
    /\ result = NoResult

-----------------------------------------------------------------------------
(* Dictionary specification: any file of at most MaxLines lines over       *)
(* LineAlphabet, then count_syllables on any word over WordAlphabet.       *)

LineAlphabet == {"a", "A", "1", " "}
LineSet == StringsUpTo(LineAlphabet, MaxLineLen)

WordAlphabet == {"a", "A", "1"}
WordSet == StringsUpTo(WordAlphabet, MaxWordLen)

NextDict ==
    \/ pc = "load" /\ \E l \in LineSet : LoadLine(l)
    \/ EndLoad
    \/ pc = "ready" /\ \E w \in WordSet : CountSyllables(w)
    \/ Return

SpecDict == InitLoad /\ [][NextDict]_vars

-----------------------------------------------------------------------------
(* Text specification: a small dictionary file, then the readability and   *)
(* total functions on any text over TextAlphabet and on the two texts of   *)
(* the sentence-split examples.                                            *)

SampleLines == {
    <<"A", " ", "A", "1">>,
    <<"A", " ", "1", " ", "1">>,
    <<"a", " ", "1">>,
    <<" ", "A", "1">>,
    <<"A">>,
    <<>>
}

TextAlphabet == {"a", "A", ".", " "}

TextABC == <<"A", ".", " ", "B", "!", " ", "C", "?">>
TextA == <<"A", ".">>

TextSet == StringsUpTo(TextAlphabet, MaxTextLen) \cup {TextABC, TextA}

NextText ==
    \/ pc = "load" /\ \E l \in SampleLines : LoadLine(l)
    \/ EndLoad
    \/ pc = "ready" /\ \E t \in TextSet : FleschParams(t)
    \/ pc = "ready" /\ \E t \in TextSet : FleschReadingEase(t)
    \/ pc = "ready" /\ \E t \in TextSet : FleschKincaidGradeLevel(t)
    \/ pc = "ready" /\ \E t \in TextSet : GetTotalWordCount(t)
    \/ pc = "ready" /\ \E t \in TextSet : GetTotalSyllableCount(t)
    \/ Return

SpecText == InitLoad /\ [][NextText]_vars

-----------------------------------------------------------------------------
(* Long texts: n one-letter words, the first Vocabulary of them distinct,  *)
(* the later ones repeats, in alternating case and with two separators.    *)

LongLetter(k, step) ==
    IF k <= Vocabulary THEN k ELSE (((k - Vocabulary) * step * 5) % Vocabulary) + 1

RECURSIVE LongText(_, _)
LongText(n, step) ==
    IF n = 0 THEN <<>>
    ELSE LongText(n - 1, step) \o
         <<IF n % 2 = 0 THEN UpperSeq[LongLetter(n, step)]
                        ELSE LowerSeq[LongLetter(n, step)]>> \o
         (IF n % 3 = 0 THEN <<".", " ">> ELSE <<" ">>)

LongTexts == {LongText(n, step) : n \in (Vocabulary - 2)..MaxLong, step \in {1, 3}}

-----------------------------------------------------------------------------
(* Word frequency specification: get_words_with_count with every           *)
(* combination of its flags, and get_most_used_words.                      *)

FreqAlphabet == {"h", "e", "E", "i", " "}
FreqTexts == StringsUpTo(FreqAlphabet, MaxFreqLen) \cup LongTexts

NextWords ==
    \/ pc = "ready" /\ \E t \in FreqTexts, eb, ep, srt \in BOOLEAN : GetWordsWithCount(t, eb, ep, srt)
    \/ pc = "ready" /\ \E t \in FreqTexts, ep \in BOOLEAN : GetMostUsedWords(t, ep)
    \/ Return

SpecWords == InitReady /\ [][NextWords]_vars

-----------------------------------------------------------------------------
(* Delta specification: get_words_with_deltas on every pair of texts.      *)

DeltaAlphabet == {"a", "B", " "}
DeltaTexts == StringsUpTo(DeltaAlphabet, MaxDeltaLen) \cup LongTexts

NextDelta ==
    \/ pc = "ready" /\ \E a, b \in DeltaTexts : GetWordsWithDeltas(a, b)
    \/ Return

SpecDelta == InitReady /\ [][NextDelta]_vars

-----------------------------------------------------------------------------
(* Properties *)

Called(name) == pc = "called" /\ op.name = name

\* the number of times w occurs in the sequence seq
Occurrences(seq, w) == Cardinality({p \in 1..Len(seq) : seq[p] = w})

\* the position of the first occurrence of w in seq
FirstPos(seq, w) == CHOOSE p \in 1..Len(seq) :
                        seq[p] = w /\ \A q \in 1..(p - 1) : seq[q] # w

Keys(items) == {items[i][1] : i \in 1..Len(items)}

UpperTokens(text) == REGEX_WORDS_split(upper(text))

\* C1: for every key of the loaded dictionary and every spelling of it in
\* upper or lower case, count_syllables returns the count recorded under
\* that key.
C1_DictionaryCount ==
    Called("count_syllables") =>
        \A k \in DOMAIN SYLLABLES :
            upper(k) = upper(op.word) => result.val = SYLLABLES[k]

\* a key with a lower-case letter is in the dictionary and was asked for
C1_LowerKeyAsked ==
    /\ Called("count_syllables")
    /\ op.word \in DOMAIN SYLLABLES
    /\ upper(op.word) # op.word

AnyCaseVowels == Vowels \cup {upperChar(c) : c \in Vowels}

\* C2: for a word whose upper-case form is no key, count_syllables is the
\* number of maximal runs of vowels of either case, so spellings that
\* differ only in case get the same count.
C2_VowelRunsAnyCase ==
    (Called("count_syllables") /\ upper(op.word) \notin DOMAIN SYLLABLES) =>
        result.val = count_findall(AnyCaseVowels, op.word)

\* a word with an upper-case vowel falls back to the heuristic
C2_UpperVowelFallback ==
    /\ Called("count_syllables")
    /\ upper(op.word) \notin DOMAIN SYLLABLES
    /\ \E i \in 1..Len(op.word) : op.word[i] \in AnyCaseVowels \ Vowels

BothFilters ==
    /\ Called("get_words_with_count")
    /\ op.exclude_boring
    /\ op.exclude_pronouns

\* C3: with both filters requested only the boring-word filter is applied:
\* a token in the pronoun list but not in the boring-word list is counted.
C3_OnlyBoringApplied ==
    BothFilters =>
        \A w \in Range(UpperTokens(op.input)) :
            (w \in PRONOUNS /\ w \notin BORING_WORDS) => w \in Keys(result.val)

\* C3 as amended: every requested filter is applied; the words of the
\* result are the tokens outside each requested list, so with both
\* requested a pronoun that is no boring word is left out too.
C3_EveryRequestedFilterApplied ==
    /\ Called("get_words_with_count") =>
          Keys(result.val) =
              (Range(UpperTokens(op.input))
                  \ (IF op.exclude_boring THEN BORING_WORDS ELSE {}))
                  \ (IF op.exclude_pronouns THEN PRONOUNS ELSE {})
    /\ (Called("get_most_used_words") /\ op.exclude_pronouns) =>
          Keys(result.val) \cap (BORING_WORDS \cup PRONOUNS) = {}

\* both filters requested on a text with the pronoun HE, which is dropped
C3_PronounDropped ==
    /\ BothFilters
    /\ <<"H", "E">> \in Range(UpperTokens(op.input))
    /\ <<"H", "E">> \notin Keys(result.val)
    /\ Keys(result.val) # {}

\* the retained tokens of a get_words_with_count call, in text order
RECURSIVE Retained(_, _, _)
Retained(split, eb, ep) ==
    IF split = <<>> THEN <<>>
    ELSE (IF (eb /\ Head(split) \in BORING_WORDS) \/ (ep /\ Head(split) \in PRONOUNS)
          THEN <<>> ELSE <<Head(split)>>) \o Retained(Tail(split), eb, ep)

\* C4: the sorted result of get_words_with_count lists each distinct
\* retained token once with its number of occurrences, counts never
\* increasing, equal counts in order of first occurrence in the text.
C4_SortedCounts ==
    (Called("get_words_with_count") /\ op.as_sorted) =>
        LET kept == Retained(UpperTokens(op.input), op.exclude_boring,
                             op.exclude_pronouns)
            r == result.val IN
        /\ \A i, j \in 1..Len(r) : i # j => r[i][1] # r[j][1]
        /\ Keys(r) = Range(kept)
        /\ \A i \in 1..Len(r) : r[i][2] = Occurrences(kept, r[i][1])
        /\ \A i, j \in 1..Len(r) : i < j =>
              /\ r[i][2] >= r[j][2]
              /\ r[i][2] = r[j][2] =>
                    FirstPos(kept, r[i][1]) < FirstPos(kept, r[j][1])

\* a sorted call whose result has a tie and differs from first-seen order
C4_TieAndReorder ==
    /\ Called("get_words_with_count")
    /\ op.as_sorted
    /\ \E i, j \in 1..Len(result.val) : i < j /\ result.val[i][2] = result.val[j][2]
    /\ \E i, j \in 1..Len(result.val) :
          /\ i < j
          /\ FirstPos(UpperTokens(op.input), result.val[j][1])
                < FirstPos(UpperTokens(op.input), result.val[i][1])

\* C5: get_words_with_deltas returns at most 20 pairs in non-increasing
\* delta order; every word is a token of A with delta = occurrences in A
\* minus occurrences in B; no token of A left out has a delta above the
\* smallest returned; a word occurring only in B never appears.
C5_TopDeltas ==
    Called("get_words_with_deltas") =>
        LET ta == UpperTokens(op.input_a)
            tb == UpperTokens(op.input_b)
            A == Range(ta)
            B == Range(tb)
            delta == [w \in A |-> Occurrences(ta, w) - Occurrences(tb, w)]
            r == result.val IN
        /\ Len(r) <= 20
        /\ \A i, j \in 1..Len(r) : i < j => r[i][2] >= r[j][2]
        /\ \A i \in 1..Len(r) : r[i][1] \in A /\ r[i][2] = delta[r[i][1]]
        /\ \A w \in A \ Keys(r) : \A i \in 1..Len(r) : delta[w] <= r[i][2]
        /\ Keys(r) \cap (B \ A) = {}
        /\ Len(r) < 20 => Keys(r) = A

\* A has more than 20 distinct tokens, so some are cut off; B shares words
\* with A, has words of its own, and the sort by delta moved a word up
C5_Truncated ==
    /\ Called("get_words_with_deltas")
    /\ Len(result.val) = 20
    /\ Range(UpperTokens(op.input_a)) \ Keys(result.val) # {}
    /\ Range(UpperTokens(op.input_b)) \ Range(UpperTokens(op.input_a)) # {}
    /\ \E i \in 1..20 : result.val[i][2] <
                            Occurrences(UpperTokens(op.input_a), result.val[i][1])
    /\ result.val # Slice(get_words_with_count(op.input_a, FALSE, FALSE, TRUE), 20)
    /\ result.val[1][2] > result.val[20][2]

\* C6: the sentence split gives 3 segments for "A. B! C?" and 2 for "A.".
C6_ThreeAndTwoSegments ==
    Called("flesch_params") =>
        /\ op.input = TextABC => result.val[1] = 3
        /\ op.input = TextA => result.val[1] = 2

\* C6 as amended: 4 segments for "A. B! C?", the fourth being the empty
\* segment after the final delimiter, and 2 for "A.".
C6_FourAndTwoSegments ==
    Called("flesch_params") =>
        /\ op.input = TextABC => result.val[1] = 4
        /\ op.input = TextA => result.val[1] = 2

C6_ExampleSplit == Called("flesch_params") /\ op.input = TextABC

NoWordToken(text) == \A i \in 1..Len(text) : text[i] \notin WordChars

\* C7: flesch_reading_ease and flesch_kincaid_grade_level end in a division
\* error exactly when the text has no non-empty word token and return a
\* score otherwise; the sentence count is at least 1 for every text.
C7_DivisionError ==
    /\ (Called("flesch_reading_ease") \/ Called("flesch_kincaid_grade_level")) =>
          /\ result.kind \in {"ZeroDivisionError", "float"}
          /\ result.kind = "ZeroDivisionError" <=> NoWordToken(op.input)
    /\ Called("flesch_params") => result.val[1] >= 1

\* a text of delimiters only, on which the score is a division error
C7_ErrorOnDelimiters ==
    /\ Called("flesch_reading_ease")
    /\ op.input # <<>>
    /\ result.kind = "ZeroDivisionError"

\* C8: loading a line that splits into a non-empty word token and a
\* remainder sets the word's entry to the number of phonemes of the
\* remainder that end in a digit (so the last line of a word wins); any
\* other line (empty, one token, nothing before the first whitespace)
\* leaves the dictionary as it was.
C8_Word(l) == SubSeq(l, 1, FirstIn(l, WhiteSpace, 1) - 1)

C8_Remainder(l) ==
    SubSeq(l, RunEnd(l, WhiteSpace, FirstIn(l, WhiteSpace, 1)) + 1, Len(l))

C8_Stressed(rest) ==
    Cardinality({i \in 1..Len(rest) :
                    /\ isdigit(rest[i])
                    /\ (i = Len(rest) \/ rest[i + 1] \in WhiteSpace)})

C8_LoadedEntries ==
    [][(pc = "load" /\ nread' = nread + 1) =>
          SYLLABLES' =
              IF FirstIn(line', WhiteSpace, 1) > 1
              THEN DictPut(SYLLABLES, C8_Word(line'), C8_Stressed(C8_Remainder(line')))
              ELSE SYLLABLES]_vars

\* a line that starts with whitespace was loaded
C8_LeadingWhitespaceLine ==
    pc = "load" /\ nread > 0 /\ line # <<>> /\ line[1] \in WhiteSpace

\* C9: get_total_word_count counts all tokens of the unfiltered split and
\* exceeds the filtered word count of flesch_params by at most one.
C9_AtMostOneMore ==
    Called("get_total_word_count") =>
        /\ result.val >= Len(flesch_words(op.input))
        /\ result.val <= Len(flesch_words(op.input)) + 1

\* the empty tokens of the unfiltered split: one for the empty text, else
\* one for a delimiter at the start and one for a delimiter at the end
C9_EmptyTokens(text) ==
    IF text = <<>> THEN 1
    ELSE (IF text[1] \in WordChars THEN 0 ELSE 1)
         + (IF text[Len(text)] \in WordChars THEN 0 ELSE 1)

\* C9 as amended: it exceeds the filtered word count by at most two, by
\* the empty tokens at the two ends of the text.
C9_AtMostTwoMore ==
    Called("get_total_word_count") =>
        /\ result.val = Len(flesch_words(op.input)) + C9_EmptyTokens(op.input)
        /\ result.val <= Len(flesch_words(op.input)) + 2

\* a text with a word between two delimiters: two tokens more
C9_TwoMore ==
    /\ Called("get_total_word_count")
    /\ Len(flesch_words(op.input)) > 0
    /\ result.val = Len(flesch_words(op.input)) + 2

\* C10: for every loaded dictionary and every text the empty tokens add no
\* syllables: get_total_syllable_count equals the syllable count of
\* flesch_params.
C10_SameSyllables ==
    Called("get_total_syllable_count") =>
        result.val = flesch_params(SYLLABLES, op.input)[3]

\* the empty string is a key of the dictionary and a token of the text
C10_EmptyKeyAndToken ==
    /\ Called("get_total_syllable_count")
    /\ <<>> \in DOMAIN SYLLABLES
    /\ <<>> \in Range(REGEX_WORDS_split(op.input))

====
